---- MODULE Spec2Model ----
(***************************************************************************)
(* Model of the Walmart seller connector's on-request report pipeline      *)
(* (source_walmart_seller/streams.py, WalmartOnRequestReportStream):       *)
(* report creation, the status polling loop with its wait budget, the      *)
(* download and the terminal outcomes of read_records.                     *)
(*                                                                         *)
(* One behaviour is one invocation of read_records.  The wall clock, the   *)
(* HTTP responses and the latency of every blocking call are chosen by the *)
(* environment.                                                            *)
(***************************************************************************)
EXTENDS Integers, Naturals, Sequences, FiniteSets, TLC

VARIABLES
    max_wait_seconds,       \* class attribute (streams.py:224), overridable
    sleep_for_seconds,      \* class attribute (streams.py:225), overridable
    pc,                     \* position inside read_records
    now,                    \* wall clock, seconds since read_records was entered
    lag,                    \* latency handed out so far by the environment
    create_payload,         \* JSON body of the creation response
    request_id,
    in_progress,
    is_ready,
    is_error,
    start_time,
    seconds_waited,
    report_status_payload,
    outcome,                \* how read_records ended ("none" while running)
    raised_payload,         \* payload carried by the raised exception
    submitted_at,           \* history: clock when the creation request was issued
    created_at,             \* history: clock when the creation response arrived
    last_polled_at,         \* history: clock when the last poll was measured
    creates,                \* history: number of _report_create calls
    polls,                  \* history: number of _report_status calls (saturating)
    sleeps,                 \* history: number of time.sleep calls (saturating)
    downloads,              \* history: number of _report_download calls
    url_fetches,            \* history: number of GETs of downloadURL
    url_status,             \* history: "none", or the status class of that GET's response
    archive_opened,         \* history: the body of that response was given to ZipFile
    status_log,             \* history: first MaxLog statuses served by polls
    raised_in,              \* history: the call of read_records that raised
    poll_transport,         \* history: what the transport did with the last poll
    download_payload,       \* JSON body of the download response
    poll_ids,               \* history: request ids the status polls were sent for
    download_ids,           \* history: request ids the downloads were sent for
    \* --- _params_from_next_page_token ---
    codec_pc,               \* "idle", "call" or "returned"
    token_segments,         \* history: the segments the token was joined from
    token_val,              \* the argument, a string (sequence of characters)
    params,                 \* the returned mapping
    \* --- the list streams (Orders, Returns, Items, Inventories) ---
    page_pc,                \* "idle", "request" or "done"
    stream,                 \* the stream being read
    end_date,               \* config: the end date, "" when not set
    next_page_token,        \* the mapping of the pagination loop, << >> for None
    request_params_sent,    \* the parameters of the last request
    request_token,          \* history: the token the last request was built from
    response_cursor,        \* history: the cursor field of the last response
    first_cursor,           \* history: the cursor field of the first response
    omitted,                \* history: the field the last response lacked
    ever_omitted,           \* history: some response lacked a field
    status_code,            \* history: status code of the last response
    page_records,           \* the records the last page yielded
    requests,               \* history: number of requests (saturating)
    page_outcome,           \* "none", "complete" or the exception raised
    total_items,            \* server: number of items it holds
    page_size,              \* server: items per page
    lazy_server,            \* server: announces a next page after every full page
    \* --- WalmartOnRequestReportStream.parse_response: the CSV document ---
    csv_pc,                 \* "idle", "read" or "done"
    csv_header,             \* the file: its column names
    csv_fields,             \* the file: its data lines, each a sequence of fields
    final_newline,          \* the file: whether it ends in a newline
    header,                 \* the header the decoder read
    row_fields,             \* history: current.split(",") of every iteration
    lines,                  \* the rows yielded
    \* --- cancellation of read_records ---
    cancellation,           \* whether a cancellation was requested, and the counters then
    \* --- ReconciliationReport ---
    recon_pc,               \* "idle", "slices", "parse" or "done"
    available_dates,        \* what the available-dates endpoint returned
    recon_start_date,       \* config: start_date, as << year, month, day >>
    recon_end_date,         \* config: end_date, << >> when not set
    utcnow,                 \* the clock read by stream_slices
    slices,                 \* the slices stream_slices yielded
    recon_file,             \* the text of the archive's first entry
    recon_rows,             \* the rows parse_response yielded
    \* --- SourceWalmartSeller.check_connection ---
    check_pc,               \* "idle", "config", "read" or "returned"
    config_valid,           \* whether the config passes WalmartSellerConfig.parse_obj
    check_result,           \* what check_connection returned or raised
    \* --- WalmartAuthenticator ---
    auth_now,               \* pendulum.now(), in seconds since the construction
    token_expiry_date,      \* self._token_expiry_date
    access_token,           \* self._access_token
    last_call               \* the last get_auth_header call and the state it found

reportVars == << max_wait_seconds, sleep_for_seconds, pc, now, lag, create_payload,
           request_id, in_progress, is_ready, is_error, start_time,
           seconds_waited, report_status_payload, outcome, raised_payload,
           submitted_at, created_at, last_polled_at, creates, polls, sleeps,
           downloads, url_fetches, status_log, raised_in, poll_transport,
           download_payload, poll_ids, download_ids, url_status,
           archive_opened >>

\* the variables of the other components
codecVars == << codec_pc, token_segments, token_val, params >>

pageVars == << page_pc, stream, end_date, next_page_token, request_params_sent,
               request_token, response_cursor, first_cursor, omitted,
               ever_omitted, status_code, page_records, requests,
               page_outcome, total_items, page_size, lazy_server >>

csvVars == << csv_pc, csv_header, csv_fields, final_newline, header,
              row_fields, lines >>

cancelVars == << cancellation >>

reconVars == << recon_pc, available_dates, recon_start_date, recon_end_date,
                utcnow, slices, recon_file, recon_rows >>

\* the components added last
checkVars == << check_pc, config_valid, check_result >>

authVars == << auth_now, token_expiry_date, access_token, last_call >>

laterVars == << cancelVars, reconVars, checkVars, authVars >>

nonReportVars == << codecVars, pageVars, csvVars, laterVars >>

vars == << reportVars, nonReportVars >>

----------------------------------------------------------------------------
(* Bounds of the model *)

MaxPolls == 30      \* the poll and sleep counters saturate here
MaxLag == 3         \* total latency (seconds) the environment may add in a run
MaxDelay == 2       \* largest latency of a single blocking call
MaxDays == 3        \* the clock keeps its time of day but stops counting days here
MaxLog == 3         \* statuses remembered in status_log

(* Program constants *)

SECONDS_PER_DAY == 86400
DefaultMaxWait == 7200
DefaultSleep == 300

None == "None"      \* Python's None (also the result of dict.get on a missing key)

Min(a, b) == IF a < b THEN a ELSE b

\* (max_wait_seconds, sleep_for_seconds) pairs a report stream may be declared with
Configs ==
    { << DefaultMaxWait, DefaultSleep >>,
      << 5, 2 >>, << 6, 2 >>, << 2, 5 >>, << 1, 1 >>,
      << 43202, 43200 >>,
      << SECONDS_PER_DAY, 43200 >> }

----------------------------------------------------------------------------
(* JSON payloads are functions from keys to values; a key may be missing. *)

EmptyPayload == [k \in {} |-> None]

Get(payload, key) == IF key \in DOMAIN payload THEN payload[key] ELSE None

\* Python truthiness of a JSON scalar
Truthy(v) == v # None /\ v # ""

\* Bodies the creation endpoint may answer with
CreateBodies ==
    { EmptyPayload,
      [requestId |-> None], [requestId |-> ""], [requestId |-> "req-1"],
      [requestId |-> "req-2"] }

\* requestStatus values the status endpoint may answer with
Statuses == {"RECEIVED", "INPROGRESS", "READY", "ERROR", "CANCELLED"}

StatusBodies ==
    { [requestStatus |-> s] : s \in Statuses } \cup { EmptyPayload }

\* What the transport does with one request
Transports == {"ok", "retryable", "client_error", "connection_error"}

Responses(bodies) ==
    { [transport |-> "ok", body |-> b] : b \in bodies }
    \cup { [transport |-> t, body |-> EmptyPayload] : t \in Transports \ {"ok"} }

----------------------------------------------------------------------------
(* Pure parts of the code *)

\* variant: a non-2xx response that is not retryable is returned to the caller
_send_requestNoRaiseForStatus(response) ==
    IF response.transport = "connection_error" THEN "ConnectionError"
    ELSE IF response.transport = "retryable" THEN "DefaultBackoffException"
    ELSE "return"

\* _send_request: the exception it raises for a response, or "return"
_send_request(response) ==
    IF response.transport = "connection_error" THEN "ConnectionError"
    ELSE IF response.transport = "retryable" THEN "DefaultBackoffException"
    ELSE IF response.transport = "client_error" THEN "HTTPError"
    ELSE "return"

\* create_payload["requestId"] and the check on it
RequestIdCheck(payload) ==
    IF "requestId" \notin DOMAIN payload THEN "KeyError"
    ELSE IF ~ Truthy(payload["requestId"]) THEN "no_request_id"
    ELSE "ok"

\* variant: the status request is sent for the id found in the last status payload
StatusRequestIdFromPayload(rid, last_payload) == Get(last_payload, "requestId")

\* the request id a status request is sent for
StatusRequestId(rid, last_payload) == rid

\* variant: the clock is read before the creation request is sent
StartTimeAtSubmission(issued, accepted) == issued

\* the point the wait budget is measured from, given the clock when the
\* creation request was issued and the clock when its response was accepted
StartTime(issued, accepted) == accepted

\* (pendulum.now("utc") - start_time).seconds: the seconds component of the
\* duration, days excluded
ElapsedSeconds(t, t0) == (t - t0) % SECONDS_PER_DAY

\* variant: READY is taken for a status of a job still running
InProgressStatusWithReady(status) == status \in {"RECEIVED", "INPROGRESS", "READY"}

\* variant: every status that is not READY or ERROR counts as still running
InProgressStatusUnlessFinal(status) == status \notin {"READY", "ERROR"}

InProgressStatus(status) == status \in {"RECEIVED", "INPROGRESS"}

ReadyStatus(status) == status = "READY"

ErrorStatus(status) == status = "ERROR"

\* variant: the wait budget is compared with <=
LoopConditionInclusive(ip, waited, max_wait) == ip /\ waited <= max_wait

\* variant: the wait budget is not looked at
LoopConditionNoCeiling(ip, waited, max_wait) == ip

\* the while condition
LoopCondition(ip, waited, max_wait) == ip /\ waited < max_wait

\* the condition guarding time.sleep
SleepCondition(ip, waited, max_wait) == ip

\* variant: the elif branch is missing
\* variant: everything but an error is downloaded
AfterLoopDownloadUnlessError(ready, error) ==
    IF error THEN "report_error" ELSE "download"

AfterLoopNoError(ready, error) ==
    IF ready THEN "download" ELSE "unknown_response"

\* the if/elif/else after the loop
AfterLoop(ready, error) ==
    IF ready THEN "download"
    ELSE IF error THEN "report_error"
    ELSE "unknown_response"

----------------------------------------------------------------------------
(* The clock *)

\* latencies the environment may still hand out
Delays == { d \in 0..MaxDelay : lag + d <= MaxLag }

\* the clock keeps the time of day exactly; past MaxDays days it stops
\* counting days
Advance(t, d) ==
    IF t + d >= MaxDays * SECONDS_PER_DAY THEN t + d - SECONDS_PER_DAY ELSE t + d

Bump(n) == Min(n + 1, MaxPolls)

----------------------------------------------------------------------------
(* read_records is not running *)

ReportIdle ==
    /\ max_wait_seconds = DefaultMaxWait
    /\ sleep_for_seconds = DefaultSleep
    /\ pc = "idle"
    /\ now = 0
    /\ lag = 0
    /\ create_payload = EmptyPayload
    /\ request_id = None
    /\ in_progress = TRUE
    /\ is_ready = FALSE
    /\ is_error = FALSE
    /\ start_time = 0
    /\ seconds_waited = 0
    /\ report_status_payload = EmptyPayload
    /\ outcome = "none"
    /\ raised_payload = EmptyPayload
    /\ submitted_at = 0
    /\ created_at = 0
    /\ last_polled_at = 0
    /\ creates = 0
    /\ polls = 0
    /\ sleeps = 0
    /\ downloads = 0
    /\ url_fetches = 0
    /\ url_status = "none"
    /\ archive_opened = FALSE
    /\ status_log = << >>
    /\ raised_in = "none"
    /\ poll_transport = "none"
    /\ download_payload = EmptyPayload
    /\ poll_ids = {}
    /\ download_ids = {}

(* _params_from_next_page_token is not running *)

CodecIdle ==
    /\ codec_pc = "idle"
    /\ token_segments = << >>
    /\ token_val = << >>
    /\ params = << >>

(* no list stream is being read *)

NotCancelled == [requested |-> FALSE, polls |-> 0, sleeps |-> 0, downloads |-> 0]

CancelIdle == cancellation = NotCancelled

ReconIdle ==
    /\ recon_pc = "idle"
    /\ available_dates = << >>
    /\ recon_start_date = << >>
    /\ recon_end_date = << >>
    /\ utcnow = [year |-> 0, month |-> 0, day |-> 0, second |-> 0]
    /\ slices = << >>
    /\ recon_file = << >>
    /\ recon_rows = << >>

NoResult == [kind |-> "none", ok |-> FALSE, error |-> None]

CheckIdle ==
    /\ check_pc = "idle"
    /\ config_valid = TRUE
    /\ check_result = NoResult

\* JSON values, tagged with their type
JNull == [t |-> "null"]

JNum(n) == [t |-> "num", v |-> n]

NoCall ==
    [kind |-> "none", first |-> FALSE, requested |-> FALSE, at |-> 0,
     token_before |-> JNull, expiry_before |-> 0, header |-> ""]

\* WalmartAuthenticator.__init__
AuthIdle ==
    /\ auth_now = 0
    /\ token_expiry_date = 0 - SECONDS_PER_DAY
    /\ access_token = JNull
    /\ last_call = NoCall

LaterIdle == CancelIdle /\ ReconIdle /\ CheckIdle /\ AuthIdle

CsvIdle ==
    /\ csv_pc = "idle"
    /\ csv_header = << >>
    /\ csv_fields = << >>
    /\ final_newline = FALSE
    /\ header = << >>
    /\ row_fields = << >>
    /\ lines = << >>

PageIdle ==
    /\ page_pc = "idle"
    /\ stream = "Orders"
    /\ end_date = << >>
    /\ next_page_token = << >>
    /\ request_params_sent = << >>
    /\ request_token = << >>
    /\ response_cursor = [t |-> "null"]
    /\ first_cursor = [t |-> "null"]
    /\ omitted = << "none", "none" >>
    /\ ever_omitted = FALSE
    /\ status_code = 0
    /\ page_records = << >>
    /\ requests = 0
    /\ page_outcome = "none"
    /\ total_items = 0
    /\ page_size = 1
    /\ lazy_server = FALSE

----------------------------------------------------------------------------

Init ==
    /\ CodecIdle
    /\ PageIdle
    /\ CsvIdle
    /\ LaterIdle
    /\ \E c \in Configs :
          /\ max_wait_seconds = c[1]
          /\ sleep_for_seconds = c[2]
    /\ pc = "create"
    /\ now = 0
    /\ lag = 0
    /\ create_payload = EmptyPayload
    /\ request_id = None
    /\ in_progress = TRUE
    /\ is_ready = FALSE
    /\ is_error = FALSE
    /\ start_time = 0
    /\ seconds_waited = 0
    /\ report_status_payload = EmptyPayload
    /\ outcome = "none"
    /\ raised_payload = EmptyPayload
    /\ submitted_at = 0
    /\ created_at = 0
    /\ last_polled_at = 0
    /\ creates = 0
    /\ polls = 0
    /\ sleeps = 0
    /\ downloads = 0
    /\ url_fetches = 0
    /\ url_status = "none"
    /\ archive_opened = FALSE
    /\ status_log = << >>
    /\ raised_in = "none"
    /\ poll_transport = "none"
    /\ download_payload = EmptyPayload
    /\ poll_ids = {}
    /\ download_ids = {}

----------------------------------------------------------------------------
(* read_records, one action per blocking call *)

\* history bookkeeping shared by the actions
Log(status) ==
    IF Len(status_log) < MaxLog THEN Append(status_log, status) ELSE status_log

Raise(exception, where, payload) ==
    /\ pc' = "done"
    /\ outcome' = exception
    /\ raised_in' = where
    /\ raised_payload' = payload

\* _report_create, the requestId check and the initialisation of the loop
ReportCreate ==
    /\ pc = "create"
    /\ \E d \in Delays, response \in Responses(CreateBodies) :
          /\ submitted_at' = now
          /\ now' = Advance(now, d)
          /\ lag' = lag + d
          /\ creates' = creates + 1
          /\ IF _send_request(response) # "return"
                THEN /\ Raise(_send_request(response), "create", EmptyPayload)
                     /\ UNCHANGED << create_payload, request_id, start_time,
                                     created_at >>
             ELSE /\ create_payload' = response.body
                  /\ created_at' = now'
                  /\ IF RequestIdCheck(response.body) = "KeyError"
                        THEN /\ Raise("KeyError", "request_id", EmptyPayload)
                             /\ UNCHANGED << request_id, start_time >>
                     ELSE IF RequestIdCheck(response.body) = "no_request_id"
                        THEN /\ Raise("no_request_id", "request_id", response.body)
                             /\ request_id' = response.body["requestId"]
                             /\ UNCHANGED start_time
                     ELSE /\ request_id' = response.body["requestId"]
                          /\ start_time' = StartTime(now, now')
                          /\ pc' = "loop"
                          /\ UNCHANGED << outcome, raised_in, raised_payload >>
    /\ in_progress' = TRUE
    /\ is_ready' = FALSE
    /\ is_error' = FALSE
    /\ seconds_waited' = 0
    /\ report_status_payload' = EmptyPayload
    /\ UNCHANGED << max_wait_seconds, sleep_for_seconds, last_polled_at, polls,
                    sleeps, downloads, url_fetches, status_log, poll_transport,
                    download_payload, poll_ids, download_ids >>
    /\ UNCHANGED << url_status, archive_opened >>
    /\ UNCHANGED nonReportVars

\* one iteration of the while loop up to the call of time.sleep
ReportStatus ==
    /\ pc = "loop"
    /\ LoopCondition(in_progress, seconds_waited, max_wait_seconds)
    /\ \E d \in Delays, response \in Responses(StatusBodies) :
          /\ now' = Advance(now, d)
          /\ lag' = lag + d
          /\ polls' = Bump(polls)
          /\ poll_transport' = response.transport
          /\ poll_ids' = poll_ids \cup
                            {StatusRequestId(request_id, report_status_payload)}
          /\ IF _send_request(response) # "return"
                THEN /\ Raise(_send_request(response), "status", EmptyPayload)
                     /\ UNCHANGED << report_status_payload, seconds_waited,
                                     in_progress, is_ready, is_error,
                                     last_polled_at, status_log >>
             ELSE LET status == Get(response.body, "requestStatus") IN
                  /\ report_status_payload' = response.body
                  /\ seconds_waited' = ElapsedSeconds(now', start_time)
                  /\ last_polled_at' = now'
                  /\ in_progress' = InProgressStatus(status)
                  /\ is_ready' = ReadyStatus(status)
                  /\ is_error' = ErrorStatus(status)
                  /\ status_log' = Log(status)
                  /\ pc' = IF SleepCondition(in_progress', seconds_waited',
                                             max_wait_seconds)
                              THEN "sleep" ELSE "loop"
                  /\ UNCHANGED << outcome, raised_in, raised_payload >>
    /\ UNCHANGED << max_wait_seconds, sleep_for_seconds, create_payload,
                    request_id, start_time, submitted_at, created_at, creates,
                    sleeps, downloads, url_fetches, download_payload,
                    download_ids >>
    /\ UNCHANGED << url_status, archive_opened >>
    /\ UNCHANGED nonReportVars

\* time.sleep(self.sleep_for_seconds)
Sleep ==
    /\ pc = "sleep"
    /\ \E d \in Delays :
          /\ now' = Advance(now, sleep_for_seconds + d)
          /\ lag' = lag + d
    /\ sleeps' = Bump(sleeps)
    /\ pc' = "loop"
    /\ UNCHANGED << max_wait_seconds, sleep_for_seconds, create_payload,
                    request_id, in_progress, is_ready, is_error, start_time,
                    seconds_waited, report_status_payload, outcome,
                    raised_payload, submitted_at, created_at, last_polled_at,
                    creates, polls, downloads, url_fetches, status_log,
                    raised_in, poll_transport, download_payload, poll_ids,
                    download_ids >>
    /\ UNCHANGED << url_status, archive_opened >>
    /\ UNCHANGED nonReportVars

\* the loop is left with is_ready: _report_download
ReportDownload ==
    /\ pc = "loop"
    /\ ~ LoopCondition(in_progress, seconds_waited, max_wait_seconds)
    /\ AfterLoop(is_ready, is_error) = "download"
    /\ \E d \in Delays,
          response \in Responses({EmptyPayload, [downloadURL |-> "url-1"]}) :
          /\ now' = Advance(now, d)
          /\ lag' = lag + d
          /\ downloads' = downloads + 1
          /\ download_ids' = download_ids \cup {request_id}
          /\ IF _send_request(response) # "return"
                THEN /\ Raise(_send_request(response), "download", EmptyPayload)
                     /\ UNCHANGED download_payload
             ELSE /\ download_payload' = response.body
                  /\ pc' = "parse"
                  /\ UNCHANGED << outcome, raised_in, raised_payload >>
    /\ UNCHANGED << max_wait_seconds, sleep_for_seconds, create_payload,
                    request_id, in_progress, is_ready, is_error, start_time,
                    seconds_waited, report_status_payload, submitted_at,
                    created_at, last_polled_at, creates, polls, sleeps,
                    url_fetches, status_log, poll_transport, poll_ids >>
    /\ UNCHANGED << url_status, archive_opened >>
    /\ UNCHANGED nonReportVars

\* the loop is left without is_ready: one of the two raise statements
RaiseAfterLoop ==
    /\ pc = "loop"
    /\ ~ LoopCondition(in_progress, seconds_waited, max_wait_seconds)
    /\ AfterLoop(is_ready, is_error) # "download"
    /\ IF AfterLoop(is_ready, is_error) = "report_error"
          THEN Raise("report_error", "after_loop", EmptyPayload)
          ELSE Raise("unknown_response", "after_loop", report_status_payload)
    /\ UNCHANGED << max_wait_seconds, sleep_for_seconds, now, lag,
                    create_payload, request_id, in_progress, is_ready,
                    is_error, start_time, seconds_waited,
                    report_status_payload, submitted_at, created_at,
                    last_polled_at, creates, polls, sleeps, downloads,
                    url_fetches, status_log, poll_transport,
                    download_payload, poll_ids, download_ids >>
    /\ UNCHANGED << url_status, archive_opened >>
    /\ UNCHANGED nonReportVars

\* what requests.get(downloadURL) may come back with: a connection error, or
\* a response of some status class whose body is or is not a zip archive
UrlReplies ==
    { [transport |-> t, content |-> c] :
        t \in {"ok", "client_error"}, c \in {"zip", "not_zip"} }
    \cup { [transport |-> "connection_error", content |-> "none"] }

\* parse_response: the GET of downloadURL and the opening of the archive
ParseResponse ==
    /\ pc = "parse"
    /\ IF Get(download_payload, "downloadURL") = None
          THEN /\ Raise("MissingSchema", "parse", EmptyPayload)
               /\ UNCHANGED << now, lag, url_fetches, url_status, archive_opened >>
       ELSE \E d \in Delays, reply \in UrlReplies :
               /\ now' = Advance(now, d)
               /\ lag' = lag + d
               /\ url_fetches' = url_fetches + 1
               /\ IF reply.transport = "connection_error"
                     THEN /\ Raise("ConnectionError", "parse", EmptyPayload)
                          /\ UNCHANGED << url_status, archive_opened >>
                  ELSE /\ url_status' = reply.transport
                       /\ archive_opened' = TRUE
                       /\ IF reply.content = "not_zip"
                             THEN Raise("BadZipFile", "parse", EmptyPayload)
                          ELSE Raise("success", "none", EmptyPayload)
    /\ UNCHANGED << max_wait_seconds, sleep_for_seconds, create_payload,
                    request_id, in_progress, is_ready, is_error, start_time,
                    seconds_waited, report_status_payload, submitted_at,
                    created_at, last_polled_at, creates, polls, sleeps,
                    downloads, status_log, poll_transport, download_payload,
                    poll_ids, download_ids >>
    /\ UNCHANGED nonReportVars

Next ==
    \/ ReportCreate
    \/ ReportStatus
    \/ Sleep
    \/ ReportDownload
    \/ RaiseAfterLoop
    \/ ParseResponse

Spec == Init /\ [][Next]_vars

\* the scheduler never abandons a call of read_records that can continue
FairSpec == Spec /\ WF_vars(Next)

----------------------------------------------------------------------------
(* Vocabulary of the properties *)

\* at least one status poll has returned a payload
Polled == Len(status_log) > 0

LastStatus == Get(report_status_payload, "requestStatus")

Unrecognized(status) == status \notin {"RECEIVED", "INPROGRESS", "READY", "ERROR"}

\* read_records ended in the raise of the else branch with the job still
\* in progress: the timeout
TimedOut ==
    pc = "done" /\ outcome = "unknown_response" /\ Polled /\ in_progress

Floor(a, b) == a \div b

Ceil(a, b) == (a + b - 1) \div b

\* the whole run, up to the last measurement, took less than a day
WithinADay == last_polled_at - start_time < SECONDS_PER_DAY

----------------------------------------------------------------------------
(* C1 *)

\* C1 (as stated): a run in which every poll returned RECEIVED or INPROGRESS
\* and that ended in the timeout has issued at most
\* floor(max_wait_seconds / sleep_for_seconds) + 1 status polls.
C1_PollsAtMostFloorPlusOne ==
    TimedOut => polls <= Floor(max_wait_seconds, sleep_for_seconds) + 1

\* C1 (amended): while every poll so far returned RECEIVED or INPROGRESS and
\* the elapsed time measured so far is below one day, at most
\* ceil(max_wait_seconds / sleep_for_seconds) + 1 status polls were issued.
C1_PollsAtMostCeilPlusOne ==
    (in_progress /\ WithinADay)
        => polls <= Ceil(max_wait_seconds, sleep_for_seconds) + 1

\* a timeout after exactly ceil + 1 polls, the interval not dividing max_wait
C1_Witness ==
    /\ TimedOut
    /\ WithinADay
    /\ max_wait_seconds % sleep_for_seconds # 0
    /\ polls = Ceil(max_wait_seconds, sleep_for_seconds) + 1
    /\ polls > Floor(max_wait_seconds, sleep_for_seconds) + 1

----------------------------------------------------------------------------
(* C2 *)

\* C2: a poll that returns READY ends the in-progress state, is followed by
\* no further poll and no sleep, and leads to exactly one download request;
\* unless the download itself faults the run ends successfully.  Every
\* earlier poll (RECEIVED/INPROGRESS) left the job in progress.
C2_ReadyDownloadsOnce ==
    /\ [](is_ready =>
            /\ ~ in_progress /\ ~ is_error
            /\ pc \in {"loop", "parse", "done"}
            /\ downloads <= 1
            /\ (pc = "done" =>
                  /\ downloads = 1
                  /\ outcome = "success" \/ raised_in \in {"download", "parse"}))
    /\ [](pc = "sleep" => in_progress /\ ~ is_ready)
    /\ [][is_ready => polls' = polls /\ sleeps' = sleeps]_vars

\* the sequence RECEIVED, INPROGRESS, READY ended successfully
C2_Witness ==
    /\ pc = "done"
    /\ outcome = "success"
    /\ status_log = << "RECEIVED", "INPROGRESS", "READY" >>
    /\ polls = 3
    /\ downloads = 1
    /\ url_fetches = 1

----------------------------------------------------------------------------
(* C3 *)

\* C3: a poll that returns ERROR is followed by no further poll, no sleep
\* and no download, and read_records fails with the report-status-is-ERROR
\* exception.
C3_ErrorFailsWithoutDownload ==
    /\ [](is_error =>
            /\ ~ in_progress /\ ~ is_ready
            /\ pc \in {"loop", "done"}
            /\ downloads = 0 /\ url_fetches = 0
            /\ (pc = "done" => outcome = "report_error"))
    /\ [][is_error => polls' = polls /\ sleeps' = sleeps]_vars

\* the sequence RECEIVED, ERROR ended in the report error
C3_Witness ==
    /\ pc = "done"
    /\ outcome = "report_error"
    /\ status_log = << "RECEIVED", "ERROR" >>
    /\ polls = 2
    /\ downloads = 0

----------------------------------------------------------------------------
(* C4 *)

\* C4 (as stated): after a poll that returned a requestStatus outside
\* {RECEIVED, INPROGRESS, READY, ERROR} the job counts as in progress, and
\* the run has ended only if the measured wait reached max_wait_seconds.
C4_UnrecognizedIsInProgress ==
    (Polled /\ Unrecognized(LastStatus))
        => /\ in_progress
           /\ (pc = "done" /\ raised_in = "after_loop"
                  => seconds_waited >= max_wait_seconds)

\* C4 (amended): a poll that returns a requestStatus outside {RECEIVED,
\* INPROGRESS, READY, ERROR} (a missing one included) ends the polling: no
\* sleep, no further poll and no download follow, whatever the elapsed time,
\* and read_records fails with the unknown-response exception that carries
\* the payload of that poll.
C4_UnrecognizedFailsAtOnce ==
    /\ []((Polled /\ Unrecognized(LastStatus)) =>
            /\ ~ in_progress
            /\ pc \in {"loop", "done"}
            /\ downloads = 0
            /\ (pc = "done" =>
                  /\ outcome = "unknown_response"
                  /\ raised_payload = report_status_payload))
    /\ [][(Polled /\ Unrecognized(LastStatus))
            => polls' = polls /\ sleeps' = sleeps]_vars

\* an unrecognized status ended the run well inside the wait budget
C4_Witness ==
    /\ pc = "done"
    /\ outcome = "unknown_response"
    /\ status_log = << "INPROGRESS", "CANCELLED" >>
    /\ seconds_waited < max_wait_seconds
    /\ raised_payload = [requestStatus |-> "CANCELLED"]

----------------------------------------------------------------------------
(* C5 *)

\* C5 (as stated): once a poll has measured a wait of max_wait_seconds or
\* more, no download is requested and the run ends in the timeout
\* (unknown-response) exception, whatever status that poll returned.
C5_CeilingForcesTimeout ==
    (Polled /\ seconds_waited >= max_wait_seconds)
        => /\ downloads = 0
           /\ (pc = "done" => outcome = "unknown_response")

\* C5 (amended): the ceiling acts only on a job still in progress.  Once a
\* poll has returned RECEIVED or INPROGRESS with a measured wait of
\* max_wait_seconds or more, no further poll and no download is issued and
\* the run ends in the timeout exception with that poll's payload; a poll
\* that returned READY leads to the download and one that returned ERROR to
\* the report error, also when its measured wait is max_wait_seconds or more.
C5_CeilingActsOnInProgressOnly ==
    /\ []((Polled /\ seconds_waited >= max_wait_seconds) =>
            /\ in_progress =>
                  /\ pc \in {"sleep", "loop", "done"}
                  /\ downloads = 0
                  /\ (pc = "done" =>
                        /\ outcome = "unknown_response"
                        /\ raised_payload = report_status_payload)
            /\ (is_ready /\ pc = "done") => downloads = 1
            /\ (is_error /\ pc = "done") => outcome = "report_error")
    /\ [][(Polled /\ seconds_waited >= max_wait_seconds) => polls' = polls]_vars

\* a timeout: the last poll returned an in-progress status and measured a
\* wait of at least max_wait_seconds
C5_Witness ==
    /\ TimedOut
    /\ seconds_waited >= max_wait_seconds
    /\ InProgressStatus(LastStatus)
    /\ downloads = 0

\* a READY that arrived with the budget already spent is still downloaded
C5_LateReady ==
    /\ pc = "done"
    /\ outcome = "success"
    /\ seconds_waited >= max_wait_seconds

----------------------------------------------------------------------------
(* C6 *)

\* the run left the case "every poll returned RECEIVED or INPROGRESS": a
\* call faulted, no request id came back, or a poll returned another status
LeftInProgressCase ==
    \/ raised_in \in {"create", "request_id", "status"}
    \/ ~ in_progress

\* C6: a run in which every status poll returns RECEIVED or INPROGRESS
\* eventually ends, in the timeout exception that carries the payload of the
\* last poll.
C6_InProgressRunTimesOut ==
    <>(\/ LeftInProgressCase
       \/ /\ TimedOut
          /\ raised_payload = report_status_payload)

----------------------------------------------------------------------------
(* C7 *)

\* C7 (as stated): the wait a poll measures is the time since the creation
\* request was issued.
C7_MeasuredFromSubmission ==
    Polled => seconds_waited = (last_polled_at - submitted_at) % SECONDS_PER_DAY

\* C7 (amended): the wait a poll measures is the seconds component of the
\* time since the creation response was received and its requestId accepted;
\* the time spent inside the creation request is not part of it.
C7_MeasuredFromCreationResponse ==
    Polled =>
        /\ start_time = created_at
        /\ seconds_waited = (last_polled_at - created_at) % SECONDS_PER_DAY

\* a poll measured its wait after a creation request that took time
C7_Witness ==
    /\ Polled
    /\ created_at > submitted_at
    /\ last_polled_at > created_at
    /\ seconds_waited = last_polled_at - created_at
    /\ seconds_waited < last_polled_at - submitted_at

----------------------------------------------------------------------------
(* C8 *)

\* C8: a sleep is started only after a poll that returned an in-progress
\* status and measured a wait below max_wait_seconds.
C8_SleepsOnlyWithinBudget ==
    pc = "sleep" => in_progress /\ seconds_waited < max_wait_seconds

----------------------------------------------------------------------------
(* C9 *)

\* C9: when the creation response carries no job identifier (requestId
\* missing, null or empty) read_records fails with the no-request-id
\* exception, and no status poll, sleep or download is issued.
C9_NoRequestIdFailsSubmission ==
    (creates > 0 /\ raised_in # "create"
        /\ ~ Truthy(Get(create_payload, "requestId")))
        => /\ pc = "done"
           /\ outcome = "no_request_id"
           /\ polls = 0 /\ sleeps = 0 /\ downloads = 0

----------------------------------------------------------------------------
(* C10 *)

\* C10: when the transport faults on a status poll (connection error,
\* retryable response, other non-2xx response) read_records ends at once
\* with the transport's exception: no sleep, poll or download follows and
\* the outcome is neither the timeout nor a status outcome.
C10_PollFaultPropagates ==
    /\ [](poll_transport \notin {"none", "ok"} =>
            /\ pc = "done"
            /\ raised_in = "status"
            /\ outcome = CASE poll_transport = "connection_error" -> "ConnectionError"
                            [] poll_transport = "retryable" -> "DefaultBackoffException"
                            [] poll_transport = "client_error" -> "HTTPError"
            /\ downloads = 0 /\ url_fetches = 0)
    /\ [][poll_transport \notin {"none", "ok"}
            => polls' = polls /\ sleeps' = sleeps /\ downloads' = downloads]_vars

\* the second poll hit a non-2xx response after one sleep
C10_Witness ==
    /\ poll_transport = "client_error"
    /\ outcome = "HTTPError"
    /\ polls = 2
    /\ sleeps = 1
    /\ status_log = << "RECEIVED" >>

----------------------------------------------------------------------------
(* C11 *)

\* C11: one invocation of read_records sends the creation request exactly
\* once, whatever the outcome, and every status poll and the download are
\* sent for the requestId that creation request returned.
C11_OneJobPerInvocation ==
    /\ [](pc # "create" => creates = 1)
    /\ [](poll_ids \cup download_ids # {} =>
            /\ request_id = Get(create_payload, "requestId")
            /\ Truthy(request_id)
            /\ poll_ids \cup download_ids = {request_id})
    /\ [][pc # "create" => creates' = creates]_vars

\* a successful run whose polls and download all carried the returned id
C11_Witness ==
    /\ pc = "done"
    /\ outcome = "success"
    /\ creates = 1
    /\ polls = 3
    /\ create_payload = [requestId |-> "req-2"]
    /\ poll_ids = {"req-2"}
    /\ download_ids = {"req-2"}

----------------------------------------------------------------------------
(* Cancellation *)

\* one configuration is enough to see what a cancellation changes
CancelInit ==
    /\ Init
    /\ max_wait_seconds = 5
    /\ sleep_for_seconds = 2

\* a cancellation is requested while read_records is polling or sleeping;
\* read_records has no statement that reads the request
Cancel ==
    /\ pc \in {"loop", "sleep"}
    /\ ~ cancellation.requested
    /\ cancellation' = [requested |-> TRUE, polls |-> polls, sleeps |-> sleeps,
                        downloads |-> downloads]
    /\ UNCHANGED << reportVars, codecVars, pageVars, csvVars, reconVars,
                    checkVars, authVars >>

CancelNext == Next \/ Cancel

CancelSpec == CancelInit /\ [][CancelNext]_vars

\* C24: once a cancellation was requested while read_records polls or
\* sleeps, at most the poll iteration under way completes: at most one more
\* status poll and one more sleep are counted, and no download is issued.
C24_CancellationStopsPolling ==
    cancellation.requested
        => /\ polls <= cancellation.polls + 1
           /\ sleeps <= cancellation.sleeps + 1
           /\ downloads = cancellation.downloads

\* cancelled before the first poll, the run still polled to its timeout
C24_PolledAfterCancellation ==
    /\ cancellation.requested
    /\ cancellation.polls = 0
    /\ TimedOut
    /\ polls >= 3
    /\ sleeps >= 2

----------------------------------------------------------------------------
(* C23 *)

\* C23: a non-2xx response to the download request keyed by requestId, and
\* a non-2xx response to the GET of the downloadURL, each end the run in an
\* error without the response body being given to the archive decoder and
\* without a row being emitted.
C23_Non2xxIsDownloadError ==
    /\ raised_in = "download"
            => /\ outcome \in {"HTTPError", "DefaultBackoffException", "ConnectionError"}
               /\ url_fetches = 0
               /\ ~ archive_opened
    /\ url_status = "client_error"
            => /\ ~ archive_opened
               /\ outcome # "success"

\* the half of C23 the code keeps: a download request that is refused ends
\* the run before the downloadURL is fetched
C23_RefusedDownloadRequestFails ==
    raised_in = "download"
        => /\ pc = "done"
           /\ outcome \in {"HTTPError", "DefaultBackoffException", "ConnectionError"}
           /\ url_fetches = 0
           /\ ~ archive_opened

\* the body of a non-2xx response to the GET of the downloadURL was opened
\* as an archive
C23_ErrorBodyOpened ==
    /\ pc = "done"
    /\ url_status = "client_error"
    /\ archive_opened
    /\ outcome = "BadZipFile"

----------------------------------------------------------------------------
(* C26 *)

\* C26: a download request is issued only after a poll that returned READY,
\* at most once, and no poll or sleep follows it; a run that ends without a
\* READY poll (ERROR, unrecognized status, timeout, submission failure, poll
\* fault) has issued no download request, fetched no downloadURL and did not
\* succeed.
C26_DownloadOnlyWhenReady ==
    /\ [](downloads > 0 => (is_ready /\ LastStatus = "READY"))
    /\ [](downloads <= 1)
    /\ [][downloads > 0 => (polls' = polls /\ sleeps' = sleeps)]_vars
    /\ []((pc = "done" /\ ~ is_ready)
            => /\ downloads = 0
               /\ url_fetches = 0
               /\ ~ archive_opened
               /\ outcome # "success")

\* a job that was READY at the first poll: one poll, no sleep, one download
C26_Witness ==
    /\ pc = "done"
    /\ outcome = "success"
    /\ status_log = << "READY" >>
    /\ polls = 1
    /\ sleeps = 0
    /\ downloads = 1
    /\ archive_opened

----------------------------------------------------------------------------
(* Strings are sequences of one-character strings.                         *)
(* WalmartStream._params_from_next_page_token                              *)

MaxSegLen == 3      \* longest segment of a generated token

TokenAlphabet == {"a", "1", "=", "?"}

RECURSIVE StringsUpTo(_, _)
StringsUpTo(alphabet, n) ==
    IF n = 0 THEN { << >> }
    ELSE LET shorter == StringsUpTo(alphabet, n - 1) IN
         shorter \cup { Append(w, c) : w \in shorter, c \in alphabet }

\* segments a token is joined from
TokenSegments == StringsUpTo(TokenAlphabet, MaxSegLen)

RECURSIVE Join(_, _)
Join(parts, sep) ==
    IF Len(parts) = 0 THEN << >>
    ELSE IF Len(parts) = 1 THEN parts[1]
    ELSE parts[1] \o sep \o Join(Tail(parts), sep)

RECURSIVE SplitFrom(_, _, _, _)
SplitFrom(str, sep, i, current) ==
    IF i > Len(str) THEN << current >>
    ELSE IF str[i] = sep THEN << current >> \o SplitFrom(str, sep, i + 1, << >>)
    ELSE SplitFrom(str, sep, i + 1, Append(current, str[i]))

\* str.split(sep) for a one-character separator
str_split(str, sep) == SplitFrom(str, sep, 1, << >>)

RECURSIVE str_lstrip(_, _)
str_lstrip(str, chars) ==
    IF Len(str) > 0 /\ str[1] \in chars THEN str_lstrip(Tail(str), chars) ELSE str

RECURSIVE str_rstrip(_, _)
str_rstrip(str, chars) ==
    IF Len(str) > 0 /\ str[Len(str)] \in chars
        THEN str_rstrip(SubSeq(str, 1, Len(str) - 1), chars)
    ELSE str

\* str.strip(chars)
str_strip(str, chars) == str_rstrip(str_lstrip(str, chars), chars)

\* variant: only the front of the segment is stripped
StripSegmentFrontOnly(qp) == str_lstrip(qp, {"?"})

\* qp.strip("?")
StripSegment(qp) == str_strip(qp, {"?"})

RECURSIVE SplitPairOnFirstFrom(_, _)
SplitPairOnFirstFrom(qp, i) ==
    IF i > Len(qp) THEN << qp >>
    ELSE IF qp[i] = "=" THEN << SubSeq(qp, 1, i - 1), SubSeq(qp, i + 1, Len(qp)) >>
    ELSE SplitPairOnFirstFrom(qp, i + 1)

\* variant: the segment is split on its first "=" only
SplitPairOnFirst(qp) == SplitPairOnFirstFrom(qp, 1)

\* qp.split("=")
SplitPair(qp) == str_split(qp, "=")

\* params[key] = value
SetItem(mapping, key, value) ==
    [k \in DOMAIN mapping \cup {key} |-> IF k = key THEN value ELSE mapping[k]]

RECURSIVE ParamsFromSegments(_, _, _)
ParamsFromSegments(qps, i, mapping) ==
    IF i > Len(qps) THEN mapping
    ELSE LET p == SplitPair(StripSegment(qps[i])) IN
         ParamsFromSegments(qps, i + 1,
             IF Len(p) = 2 THEN SetItem(mapping, p[1], p[2]) ELSE mapping)

_params_from_next_page_token(token) ==
    ParamsFromSegments(str_split(token, "&"), 1, << >>)

\* tokens of one or two segments
CodecInit ==
    /\ ReportIdle
    /\ PageIdle
    /\ CsvIdle
    /\ LaterIdle
    /\ codec_pc = "call"
    /\ token_segments \in
          { << a >> : a \in TokenSegments }
          \cup { << a, b >> : a \in TokenSegments, b \in TokenSegments }
    /\ token_val = Join(token_segments, << "&" >>)
    /\ params = << >>

DecodeToken ==
    /\ codec_pc = "call"
    /\ params' = _params_from_next_page_token(token_val)
    /\ codec_pc' = "returned"
    /\ UNCHANGED << token_segments, token_val, reportVars, pageVars, csvVars,
                    laterVars >>

CodecNext == DecodeToken

CodecSpec == CodecInit /\ [][CodecNext]_vars

----------------------------------------------------------------------------
(* C12, C13 *)

CountOf(str, c) == Cardinality({ i \in 1..Len(str) : str[i] = c })

\* a segment with exactly one "="
WellFormed(seg) == CountOf(seg, "=") = 1

\* the segment without its leading "?" characters
WithoutLeading(seg) ==
    LET n == CHOOSE k \in 0..Len(seg) :
                /\ \A i \in 1..k : seg[i] = "?"
                /\ k < Len(seg) => seg[k + 1] # "?"
    IN SubSeq(seg, n + 1, Len(seg))

\* the segment without its leading and trailing "?" characters
WithoutLeadingAndTrailing(seg) ==
    LET front == WithoutLeading(seg)
        m == CHOOSE k \in 0..Len(front) :
                /\ \A i \in (k + 1)..Len(front) : front[i] = "?"
                /\ k > 0 => front[k] # "?"
    IN SubSeq(front, 1, m)

EqualsAt(seg) == CHOOSE i \in 1..Len(seg) : seg[i] = "="

KeyOf(seg) == SubSeq(seg, 1, EqualsAt(seg) - 1)

ValueOf(seg) == SubSeq(seg, EqualsAt(seg) + 1, Len(seg))

Has(mapping, key, value) == key \in DOMAIN mapping /\ mapping[key] = value

WellFormedIndexes == { i \in 1..Len(token_segments) : WellFormed(token_segments[i]) }

\* C12 (as stated): the returned mapping holds key -> value for every
\* well-formed segment of the token, key and value read from the segment
\* with only its leading "?" removed, and every entry of the mapping comes
\* from a well-formed segment.
C12_EveryWellFormedPairDecoded ==
    codec_pc = "returned" =>
        /\ \A i \in WellFormedIndexes :
              LET seg == WithoutLeading(token_segments[i]) IN
              Has(params, KeyOf(seg), ValueOf(seg))
        /\ \A k \in DOMAIN params : \E i \in WellFormedIndexes :
              LET seg == WithoutLeading(token_segments[i]) IN
              k = KeyOf(seg) /\ params[k] = ValueOf(seg)

\* C12 (amended): key and value are read from the segment with all its
\* leading and trailing "?" removed; the returned mapping holds key -> value
\* for every well-formed segment whose key is not repeated by a later
\* well-formed segment (the last one wins), and every entry of the mapping
\* comes from a well-formed segment.
C12_LastWellFormedPairDecoded ==
    codec_pc = "returned" =>
        /\ \A i \in WellFormedIndexes :
              LET seg == WithoutLeadingAndTrailing(token_segments[i]) IN
              (\A j \in WellFormedIndexes :
                    j > i => KeyOf(WithoutLeadingAndTrailing(token_segments[j]))
                                # KeyOf(seg))
                  => Has(params, KeyOf(seg), ValueOf(seg))
        /\ \A k \in DOMAIN params : \E i \in WellFormedIndexes :
              LET seg == WithoutLeadingAndTrailing(token_segments[i]) IN
              k = KeyOf(seg) /\ params[k] = ValueOf(seg)

\* "?a=?&a=1": the "?" after the "=" is dropped and the second pair wins
C12_Witness ==
    /\ codec_pc = "returned"
    /\ token_segments = << << "?", "a", "=" >>, << "a", "=", "?" >> >>
    /\ DOMAIN params = { << "a" >> }
    /\ params[<< "a" >>] = << >>

----------------------------------------------------------------------------
(* The list streams: Orders, Returns, Items, Inventories.                  *)
(* In the strings of this part a run of ordinary characters may be written *)
(* as one element ("limit"); "?", "&" and "=" are always single elements.  *)

MaxItems == 4       \* most items the server holds
MaxPageSize == 2    \* largest page the server serves
MaxRequests == 7    \* the request counter saturates here

HTTP_OK == 200

Streams == {"Orders", "Returns", "Items", "Inventories"}

Word(w) == << w >>

JStr(x) == [t |-> "str", v |-> x]

JList(x) == [t |-> "list", v |-> x]

JObj(f) == [t |-> "obj", v |-> f]

\* the exception of calling .get on None
AttributeError == [t |-> "AttributeError"]

\* the exception of iterating over None
TypeError == [t |-> "TypeError"]

\* obj.get(key)
dict_get(obj, key) ==
    IF obj.t = "obj"
        THEN IF key \in DOMAIN obj.v THEN obj.v[key] ELSE JNull
    ELSE AttributeError

\* obj.get(key, default)
dict_get_default(obj, key, default) ==
    IF obj.t = "obj"
        THEN IF key \in DOMAIN obj.v THEN obj.v[key] ELSE default
    ELSE AttributeError

\* truthiness of a JSON value
JTruthy(x) ==
    CASE x.t = "str" -> Len(x.v) > 0
      [] x.t = "list" -> Len(x.v) > 0
      [] x.t = "obj" -> DOMAIN x.v # {}
      [] OTHER -> FALSE

\* yield from x
YieldFrom(x) ==
    IF x.t \in {"list", "AttributeError"} THEN x ELSE TypeError

next_page_token_field == "nextCursor"

\* the class attribute limit
limit(s) == IF s = "Inventories" THEN Word("50") ELSE Word("200")

\* the class attribute data_field
data_field(s) ==
    CASE s = "Orders" -> "order"
      [] s = "Returns" -> "returnOrders"
      [] s = "Items" -> "ItemResponse"
      [] s = "Inventories" -> "inventories"

\* the cursor field of a response, read the way the stream reads it
CursorField(s, json) ==
    CASE s = "Orders" ->
            dict_get(dict_get(dict_get(json, "list"), "meta"), next_page_token_field)
      [] s \in {"Returns", "Inventories"} ->
            dict_get(dict_get(json, "meta"), next_page_token_field)
      [] s = "Items" -> dict_get(json, next_page_token_field)

\* variant: the token is tested with "is not None"
next_page_tokenNotNone(s, json) ==
    LET cursor == CursorField(s, json) IN
    IF cursor.t = "AttributeError" THEN cursor
    ELSE IF cursor.t # "null" THEN JObj([k \in {next_page_token_field} |-> cursor.v])
    ELSE JNull

\* next_page_token of the four streams: the mapping, None or the exception
next_page_token_of(s, json) ==
    LET cursor == CursorField(s, json) IN
    IF cursor.t = "AttributeError" THEN cursor
    ELSE IF JTruthy(cursor) THEN JObj([k \in {next_page_token_field} |-> cursor.v])
    ELSE JNull

\* the argument of the logger call at the top of parse_response
LoggedField(s, json) ==
    CASE s = "Orders" -> dict_get(dict_get(json, "list"), "meta")
      [] s \in {"Returns", "Inventories"} -> dict_get(json, "meta")
      [] s = "Items" -> dict_get(json, "nextCursor")

\* the expression after "yield from" for a 200 response
DataOf(s, json) ==
    CASE s = "Orders" ->
            dict_get_default(dict_get(dict_get(json, "list"), "elements"),
                             data_field(s), JList(<< >>))
      [] s = "Inventories" ->
            dict_get_default(dict_get(json, "elements"), data_field(s),
                             JList(<< >>))
      [] s \in {"Returns", "Items"} ->
            dict_get_default(json, data_field(s), JList(<< >>))

\* parse_response of the four streams: the list of records or the exception
parse_response(s, code, json) ==
    IF LoggedField(s, json).t = "AttributeError" THEN AttributeError
    ELSE IF code = HTTP_OK THEN YieldFrom(DataOf(s, json))
    ELSE JList(<< >>)

StartDate == Word("2023-01-01")

\* pendulum.now("utc").strftime(DATE_FORMAT)
Today == Word("2023-06-01")

\* the parameters of a request made without a token
FirstPageParams(s, start, end) ==
    CASE s = "Orders" ->
            IF Len(end) > 0
                THEN (Word("lastModifiedStartDate") :> start)
                        @@ (Word("limit") :> limit(s))
                        @@ (Word("lastModifiedEndDate") :> end)
            ELSE (Word("lastModifiedStartDate") :> start)
                    @@ (Word("limit") :> limit(s))
      [] s = "Returns" ->
            (Word("returnLastModifiedStartDate") :> start)
                @@ (Word("limit") :> limit(s))
                @@ (Word("returnLastModifiedEndDate") :>
                        IF Len(end) > 0 THEN end ELSE Today)
      [] s \in {"Items", "Inventories"} -> (Word("limit") :> limit(s))

\* variant: the decoded token is merged into the first-page parameters
request_paramsMerged(s, token, start, end) ==
    IF DOMAIN token # {}
        THEN IF s \in {"Orders", "Returns"}
                THEN _params_from_next_page_token(token[next_page_token_field])
                        @@ FirstPageParams(s, start, end)
             ELSE (Word(next_page_token_field) :> token[next_page_token_field])
    ELSE FirstPageParams(s, start, end)

\* request_params of the four streams
request_params(s, token, start, end) ==
    IF DOMAIN token # {}
        THEN IF s \in {"Orders", "Returns"}
                THEN _params_from_next_page_token(token[next_page_token_field])
             ELSE (Word(next_page_token_field) :> token[next_page_token_field])
    ELSE FirstPageParams(s, start, end)

----------------------------------------------------------------------------
(* The server behind a list endpoint *)

Digits == << "0", "1", "2", "3", "4", "5", "6", "7", "8", "9" >>

Digit(k) == Digits[k + 1]

DigitValue(str) ==
    IF Len(str) > 0 /\ \E k \in 0..9 : Digit(k) = str[Len(str)]
        THEN CHOOSE k \in 0..9 : Digit(k) = str[Len(str)]
    ELSE 0

\* the cursor the server issues for the page starting after k items
ServerToken(s, k) ==
    IF s \in {"Orders", "Returns"}
        THEN << "?", "limit", "=", "200", "&", "soIndex", "=", Digit(k) >>
    ELSE << "cursor-", Digit(k) >>

\* the offset the server reads from the parameters of a request
ServerOffset(prm) ==
    IF Word("soIndex") \in DOMAIN prm THEN DigitValue(prm[Word("soIndex")])
    ELSE IF Word("nextCursor") \in DOMAIN prm
        THEN DigitValue(prm[Word("nextCursor")])
    ELSE 0

ServerItems(offset) ==
    LET n == IF offset >= total_items THEN 0
             ELSE Min(page_size, total_items - offset)
    IN [i \in 1..n |-> offset + i]

\* whether the server announces a page after the one starting at offset
ServerHasNext(offset) ==
    IF lazy_server THEN Len(ServerItems(offset)) = page_size
    ELSE offset + page_size < total_items

\* fields a response may lack, per stream
Omittable(s) ==
    CASE s = "Orders" -> {"list", "list.meta", "list.elements", "list.elements.order"}
      [] s = "Returns" -> {"meta", "returnOrders"}
      [] s = "Items" -> {"ItemResponse"}
      [] s = "Inventories" -> {"meta", "elements", "elements.inventories"}

Omit(f, key, path, omit) ==
    IF omit[1] # path THEN f
    ELSE IF omit[2] = "missing" THEN [k \in DOMAIN f \ {key} |-> f[k]]
    ELSE [k \in DOMAIN f |-> IF k = key THEN JNull ELSE f[k]]

CursorInto(f, cursor) ==
    IF cursor.t = "missing" THEN f ELSE SetItem(f, "nextCursor", cursor)

ServerBody(s, items, cursor, omit) ==
    CASE s = "Orders" ->
            LET meta == CursorInto([totalCount |-> JNull], cursor)
                elements == Omit([order |-> JList(items)], "order",
                                 "list.elements.order", omit)
                list == Omit(Omit([meta |-> JObj(meta), elements |-> JObj(elements)],
                                  "meta", "list.meta", omit),
                             "elements", "list.elements", omit)
            IN JObj(Omit([list |-> JObj(list)], "list", "list", omit))
      [] s = "Returns" ->
            LET meta == CursorInto([totalCount |-> JNull], cursor)
            IN JObj(Omit(Omit([meta |-> JObj(meta), returnOrders |-> JList(items)],
                              "meta", "meta", omit),
                         "returnOrders", "returnOrders", omit))
      [] s = "Items" ->
            JObj(Omit(CursorInto([ItemResponse |-> JList(items), totalItems |-> JNull],
                                 cursor),
                      "ItemResponse", "ItemResponse", omit))
      [] s = "Inventories" ->
            LET meta == CursorInto([totalCount |-> JNull], cursor)
                elements == Omit([inventories |-> JList(items)], "inventories",
                                 "elements.inventories", omit)
            IN JObj(Omit(Omit([meta |-> JObj(meta), elements |-> JObj(elements)],
                              "meta", "meta", omit),
                         "elements", "elements", omit))

\* the ways a server leaves out the cursor of the last page
NoCursor == { [t |-> "missing"], JNull, JStr(<< >>) }

----------------------------------------------------------------------------
(* Reading a list stream: the pagination loop of HttpStream.read_records   *)

PageInit ==
    /\ ReportIdle
    /\ CodecIdle
    /\ CsvIdle
    /\ LaterIdle
    /\ page_pc = "request"
    /\ stream \in Streams
    /\ end_date \in { << >>, Word("2023-03-01") }
    /\ next_page_token = << >>
    /\ request_params_sent = << >>
    /\ request_token = << >>
    /\ response_cursor = JNull
    /\ first_cursor = JNull
    /\ omitted = << "none", "none" >>
    /\ ever_omitted = FALSE
    /\ status_code = 0
    /\ page_records = << >>
    /\ requests = 0
    /\ page_outcome = "none"
    /\ total_items \in 0..MaxItems
    /\ page_size \in 1..MaxPageSize
    /\ lazy_server \in BOOLEAN

\* one iteration of the loop: request, parse_response, next_page_token
FetchPage ==
    /\ page_pc = "request"
    /\ \E omit \in {<< "none", "none" >>}
                    \cup (Omittable(stream) \X {"missing", "null"}),
          code \in {HTTP_OK, 202},
          nocursor \in NoCursor :
          LET prm == request_params(stream, next_page_token, StartDate, end_date)
              offset == ServerOffset(prm)
              cursor == IF ServerHasNext(offset)
                            THEN JStr(ServerToken(stream, offset + page_size))
                        ELSE nocursor
              json == ServerBody(stream, ServerItems(offset), cursor, omit)
              records == parse_response(stream, code, json)
              token == next_page_token_of(stream, json)
          IN /\ request_params_sent' = prm
             /\ request_token' = next_page_token
             /\ requests' = Min(requests + 1, MaxRequests)
             /\ response_cursor' = IF cursor.t = "missing" THEN JNull ELSE cursor
             /\ first_cursor' = IF requests = 0 THEN response_cursor'
                                 ELSE first_cursor
             /\ omitted' = omit
             /\ ever_omitted' = (ever_omitted \/ omit[1] # "none")
             /\ status_code' = code
             /\ IF records.t # "list"
                   THEN /\ page_records' = << >>
                        /\ page_outcome' = records.t
                        /\ page_pc' = "done"
                        /\ UNCHANGED next_page_token
                ELSE /\ page_records' = records.v
                     /\ IF token.t = "AttributeError"
                           THEN /\ page_outcome' = token.t
                                /\ page_pc' = "done"
                                /\ UNCHANGED next_page_token
                        ELSE IF token.t = "null"
                           THEN /\ page_outcome' = "complete"
                                /\ page_pc' = "done"
                                /\ next_page_token' = << >>
                        ELSE /\ next_page_token' = token.v
                             /\ UNCHANGED << page_outcome, page_pc >>
    /\ UNCHANGED << stream, end_date, total_items, page_size, lazy_server >>
    /\ UNCHANGED << reportVars, codecVars, csvVars, laterVars >>

PageNext == FetchPage

PageSpec == PageInit /\ [][PageNext]_vars

----------------------------------------------------------------------------
(* Properties of the list streams *)

Failures == {"AttributeError", "TypeError"}

Fetched == requests >= 1

WalmartStyle == {"Orders", "Returns"}

CursorOnly == {"Items", "Inventories"}

\* C14: a list stream read against a server holding total_items items in
\* pages of page_size makes at most ceil(total_items / page_size) + 1
\* requests; it makes exactly one when the first response carries no next
\* cursor; and a read that did not fail stops exactly when the cursor of the
\* last response is absent or empty.
C14_PaginationTerminates ==
    /\ requests <= Ceil(total_items, page_size) + 1
    /\ (Fetched /\ ~JTruthy(first_cursor)) => (requests = 1 /\ page_pc = "done")
    /\ (Fetched /\ page_outcome \notin Failures)
            => (page_pc = "done" <=> ~JTruthy(response_cursor))

\* the bound is met: a server that announces a page after every full page
\* is asked once more than it has pages
C14_Witness ==
    /\ page_outcome = "complete"
    /\ total_items = 4
    /\ page_size = 2
    /\ requests = Ceil(total_items, page_size) + 1
    /\ page_records = << >>
    /\ JTruthy(first_cursor)

\* C15: a cursor-only stream (Items, Inventories) sends {nextCursor: token,
\* limit: <stream limit>} on a request made with a token and {limit} alone on
\* the first request.
C15_CursorSentWithLimit ==
    (Fetched /\ stream \in CursorOnly)
        => request_params_sent =
              IF DOMAIN request_token # {}
                  THEN (Word("nextCursor") :> request_token[next_page_token_field])
                          @@ (Word("limit") :> limit(stream))
              ELSE (Word("limit") :> limit(stream))

\* what the code sends instead: the cursor alone
C15_CursorSentAlone ==
    (Fetched /\ stream \in CursorOnly /\ DOMAIN request_token # {})
        => request_params_sent =
              (Word("nextCursor") :> request_token[next_page_token_field])

FirstPageKeys ==
    { Word("lastModifiedStartDate"), Word("lastModifiedEndDate"),
      Word("returnLastModifiedStartDate"), Word("returnLastModifiedEndDate") }

\* C16: on Orders and Returns a request that follows a response carries the
\* token extracted from that response, and its parameters are exactly the
\* pairs written in the token (limit and soIndex for the server's cursors):
\* no first-page date parameter is merged in.
C16_TokenReplacesParams ==
    [][ (stream \in WalmartStyle /\ Fetched /\ page_pc = "request")
            => /\ request_token' =
                    [k \in {next_page_token_field} |-> response_cursor.v]
               /\ DOMAIN request_params_sent' = { Word("limit"), Word("soIndex") }
               /\ request_params_sent'[Word("limit")] = Word("200")
               /\ request_params_sent'[Word("soIndex")]
                    = << response_cursor.v[Len(response_cursor.v)] >>
               /\ DOMAIN request_params_sent' \cap FirstPageKeys = {} ]_vars

C16_Witness ==
    /\ stream = "Returns"
    /\ requests = 3
    /\ DOMAIN request_token # {}
    /\ DOMAIN request_params_sent = { Word("limit"), Word("soIndex") }
    /\ request_params_sent[Word("soIndex")] = Word("2")

\* C17: a response that lacks a container field of its stream makes the
\* page fetch fail.
C17_MissingContainerFails ==
    (Fetched /\ omitted[1] # "none" /\ omitted[2] = "missing")
        => page_outcome \in Failures

\* the fields whose absence the code does turn into a failure
C17_MissingEnvelopeFails ==
    (/\ Fetched
     /\ omitted[1] \in {"list", "list.meta", "meta"}
            \/ (omitted[1] \in {"list.elements", "elements"}
                    /\ status_code = HTTP_OK))
        => page_outcome \in Failures

\* a response without its data container read as an empty last page
C17_SwallowedCase ==
    /\ stream = "Items"
    /\ omitted = << "ItemResponse", "missing" >>
    /\ status_code = HTTP_OK
    /\ page_outcome = "complete"
    /\ page_records = << >>

----------------------------------------------------------------------------
(* WalmartOnRequestReportStream.parse_response: decoding the CSV document  *)
(* of the archive's first entry                                            *)

MaxCols == 3        \* most columns of a header and fields of a plain line
MaxLines == 2       \* most data lines of a file

Alnum ==
    { "a", "b", "c", "d", "e", "f", "g", "h", "i", "j", "k", "l", "m", "n",
      "o", "p", "q", "r", "s", "t", "u", "v", "w", "x", "y", "z",
      "A", "B", "C", "D", "E", "F", "G", "H", "I", "J", "K", "L", "M", "N",
      "O", "P", "Q", "R", "S", "T", "U", "V", "W", "X", "Y", "Z",
      "0", "1", "2", "3", "4", "5", "6", "7", "8", "9" }

COMMA == << "," >>

\* the text of a line made of fields
LineText(fields) == Join(fields, COMMA)

\* the bytes of a file: header line, data lines, optional final newline
FileBytes(names, body, newline) ==
    Join(<< LineText(names) >> \o [j \in 1..Len(body) |-> LineText(body[j])],
         << "\n" >>)
        \o (IF newline THEN << "\n" >> ELSE << >>)

RECURSIVE EscapeBytes(_, _)
EscapeBytes(content, quote) ==
    IF Len(content) = 0 THEN << >>
    ELSE LET c == Head(content) IN
         (CASE c = "\n" -> << "\\", "n" >>
            [] c = "\\" -> << "\\", "\\" >>
            [] c = quote -> << "\\", c >>
            [] OTHER -> << c >>) \o EscapeBytes(Tail(content), quote)

\* str(content) of a bytes object: its repr
bytes_str(content) ==
    LET quote == IF (\E i \in 1..Len(content) : content[i] = "'")
                        /\ ~(\E i \in 1..Len(content) : content[i] = "\"")
                    THEN "\"" ELSE "'"
    IN << "b", quote >> \o EscapeBytes(content, quote) \o << quote >>

RECURSIVE SplitOnFrom(_, _, _, _)
SplitOnFrom(str, sep, i, current) ==
    IF i > Len(str) THEN << current >>
    ELSE IF i + Len(sep) - 1 <= Len(str) /\ SubSeq(str, i, i + Len(sep) - 1) = sep
        THEN << current >> \o SplitOnFrom(str, sep, i + Len(sep), << >>)
    ELSE SplitOnFrom(str, sep, i + 1, Append(current, str[i]))

\* str.split(sep) for a separator of several characters
str_split_on(str, sep) == SplitOnFrom(str, sep, 1, << >>)

\* variant: a comma between two quoted fields, '[a-zA-Z0-9]","[a-zA-Z0-9]'
MatchAtSingleQuotes(str, i) ==
    IF i + 4 <= Len(str)
          /\ str[i] \in Alnum /\ str[i + 1] = "\"" /\ str[i + 2] = ","
          /\ str[i + 3] = "\"" /\ str[i + 4] \in Alnum
        THEN 5
    ELSE 0

\* length of the match of '[a-zA-Z0-9]"",""[a-zA-Z0-9]' at position i, 0 if none
MatchAt(str, i) ==
    IF i + 6 <= Len(str)
          /\ str[i] \in Alnum /\ str[i + 1] = "\"" /\ str[i + 2] = "\""
          /\ str[i + 3] = ","
          /\ str[i + 4] = "\"" /\ str[i + 5] = "\"" /\ str[i + 6] \in Alnum
        THEN 7
    ELSE 0

RECURSIVE FindAllFrom(_, _)
FindAllFrom(str, i) ==
    IF i > Len(str) THEN << >>
    ELSE IF MatchAt(str, i) > 0
        THEN << SubSeq(str, i, i + MatchAt(str, i) - 1) >>
                \o FindAllFrom(str, i + MatchAt(str, i))
    ELSE FindAllFrom(str, i + 1)

\* p.findall(current)
findall(str) == FindAllFrom(str, 1)

RECURSIVE ReplaceFrom(_, _, _, _)
ReplaceFrom(str, old, new, i) ==
    IF i > Len(str) THEN << >>
    ELSE IF i + Len(old) - 1 <= Len(str) /\ SubSeq(str, i, i + Len(old) - 1) = old
        THEN new \o ReplaceFrom(str, old, new, i + Len(old))
    ELSE << str[i] >> \o ReplaceFrom(str, old, new, i + 1)

\* str.replace(old, new) for a non-empty old
str_replace(str, old, new) == ReplaceFrom(str, old, new, 1)

\* str(source).replace(",", ";")
Target(source) == str_replace(source, COMMA, << ";" >>)

\* the loop over match_list
RECURSIVE Repair(_, _, _)
Repair(current, match_list, i) ==
    IF i > Len(match_list) THEN current
    ELSE Repair(str_replace(current, match_list[i], Target(match_list[i])),
                match_list, i + 1)

RECURSIVE ZipFrom(_, _, _, _)
ZipFrom(keys, values, i, mapping) ==
    IF i > Len(keys) \/ i > Len(values) THEN mapping
    ELSE ZipFrom(keys, values, i + 1, SetItem(mapping, keys[i], values[i]))

\* variant: the shorter side is padded, as zip_longest does
dict_zipLongest(keys, values) ==
    ZipFrom(keys \o [i \in 1..(Len(values) - Len(keys)) |-> << "None" >>],
            values \o [i \in 1..(Len(keys) - Len(values)) |-> << "None" >>],
            1, << >>)

\* dict(zip(keys, values))
dict_zip(keys, values) == ZipFrom(keys, values, 1, << >>)

\* rows[0].lstrip("b'").split(",")
Header(rows) == str_split(str_lstrip(rows[1], {"b", "'"}), ",")

\* current.split(",") of the iteration for rows[i]
Fields(rows, i) == str_split(Repair(rows[i], findall(rows[i]), 1), ",")

\* data.split("\\n")
Rows(content) == str_split_on(bytes_str(content), << "\\", "n" >>)

----------------------------------------------------------------------------
(* The files the decoder is run on *)

ColumnNames == { << "a" >>, << "b" >>, << "c" >> }

FourColumns == << << "a" >>, << "b" >>, << "c" >>, << "d" >> >>

\* headers of distinct column names
Headers ==
    { h \in UNION { [1..n -> ColumnNames] : n \in 1..MaxCols } :
        \A i, j \in DOMAIN h : i # j => h[i] # h[j] }
    \cup { FourColumns }

\* a line of m comma-free fields: consecutive digits from s
PlainLine(m, s) == [i \in 1..m |-> << Digit(s + i - 1) >>]

PlainLines == { PlainLine(m, s) : m \in 1..MaxCols, s \in 1..2 }

\* a,"x","y,z""",b
QuotedCommaLine ==
    << << "a" >>, << "\"", "x", "\"" >>, << "\"", "y" >>,
       << "z", "\"", "\"", "\"" >>, << "b" >> >>

\* a,"x","y"",""z",b
DoubledQuoteLine ==
    << << "a" >>, << "\"", "x", "\"" >>, << "\"", "y", "\"", "\"" >>,
       << "\"", "\"", "z", "\"" >>, << "b" >> >>

\* 1,o'c
ApostropheLine == << << "1" >>, << "o", "'", "c" >> >>

\* x"",""y"",""z
SharedBoundaryLine ==
    << << "x", "\"", "\"" >>, << "\"", "\"", "y", "\"", "\"" >>,
       << "\"", "\"", "z" >> >>

DataLines ==
    PlainLines
        \cup { QuotedCommaLine, DoubledQuoteLine, ApostropheLine, SharedBoundaryLine }

CsvInit ==
    /\ ReportIdle
    /\ CodecIdle
    /\ PageIdle
    /\ LaterIdle
    /\ csv_pc = "read"
    /\ csv_header \in Headers
    /\ csv_fields \in UNION { [1..k -> DataLines] : k \in 0..MaxLines }
    /\ final_newline \in BOOLEAN
    /\ header = << >>
    /\ row_fields = << >>
    /\ lines = << >>

\* parse_response from str(file.read()) to the rows it yields
DecodeDocument ==
    /\ csv_pc = "read"
    /\ LET rows == Rows(FileBytes(csv_header, csv_fields, final_newline)) IN
       /\ header' = Header(rows)
       /\ row_fields' = [i \in 1..(Len(rows) - 1) |-> Fields(rows, i + 1)]
       /\ lines' = [i \in 1..(Len(rows) - 1) |->
                        dict_zip(Header(rows), Fields(rows, i + 1))]
    /\ csv_pc' = "done"
    /\ UNCHANGED << csv_header, csv_fields, final_newline >>
    /\ UNCHANGED << reportVars, codecVars, pageVars, laterVars >>

CsvNext == DecodeDocument

CsvSpec == CsvInit /\ [][CsvNext]_vars

----------------------------------------------------------------------------
(* Properties of the CSV decoder *)

Decoded == csv_pc = "done"

NamesOf(names) == { names[i] : i \in DOMAIN names }

\* a file of comma-free fields, as many on every line as the header has names
PlainFile ==
    \A j \in DOMAIN csv_fields :
        csv_fields[j] \in PlainLines /\ Len(csv_fields[j]) = Len(csv_header)

\* the row a data line stands for: header name i mapped to field i
RowOf(names, fields) ==
    [name \in NamesOf(names) |-> fields[CHOOSE i \in DOMAIN names : names[i] = name]]

\* C18: a file of a header of n distinct names and k lines of n comma-free
\* fields decodes to exactly k rows, row j mapping header[i] to field i of
\* line j, names and values unaltered.
C18_RowsAsWritten ==
    (Decoded /\ PlainFile)
        => /\ Len(lines) = Len(csv_fields)
           /\ \A j \in DOMAIN lines : lines[j] = RowOf(csv_header, csv_fields[j])

\* header a,b,c and one line 1,2,3 without a final newline: c is read as 3'
C18_TrailingQuoteCase ==
    /\ Decoded
    /\ csv_header = << << "a" >>, << "b" >>, << "c" >> >>
    /\ csv_fields = << PlainLine(3, 1) >>
    /\ ~final_newline
    /\ Len(lines) = 1
    /\ lines[1][<< "c" >>] = << "3", "'" >>

\* C19 as stated: every row has the key set of the header line, and there
\* is one row per data line.
C19_RowsHaveHeaderKeys ==
    Decoded
        => /\ Len(lines) = Len(csv_fields)
           /\ \A j \in DOMAIN lines : DOMAIN lines[j] = NamesOf(csv_header)

ClosingQuotes == { "'", "\"" }

\* the text a row was split from, with the semicolons of the repair and
\* the backslashes of the text form of the bytes undone
TextOf(fields) ==
    str_replace(str_replace(LineText(fields), << ";" >>, COMMA), << "\\" >>, << >>)

\* C19: every row has as key set the first min(n, m) names of the header as
\* the decoder read it, m being the number of fields its line was split
\* into, and maps them to these fields; row j comes from data line j, in
\* file order and none dropped; a file ending in a newline gives one more
\* row, made of the closing quote of the text form of the bytes.
C19_RowsHaveLeadingHeaderKeys ==
    Decoded
        => /\ Len(lines) = Len(csv_fields) + (IF final_newline THEN 1 ELSE 0)
           /\ \A j \in DOMAIN lines :
                /\ DOMAIN lines[j] =
                      { header[i] : i \in 1..Min(Len(header), Len(row_fields[j])) }
                /\ \A i \in 1..Min(Len(header), Len(row_fields[j])) :
                      lines[j][header[i]] = row_fields[j][i]
           /\ \A j \in DOMAIN csv_fields :
                IF j = Len(csv_fields) /\ ~final_newline
                    THEN \E q \in ClosingQuotes :
                            TextOf(row_fields[j]) = LineText(csv_fields[j]) \o << q >>
                ELSE TextOf(row_fields[j]) = LineText(csv_fields[j])
           /\ final_newline
                => \E q \in ClosingQuotes : row_fields[Len(lines)] = << << q >> >>

\* a line shorter and a line longer than the header, and a final newline
C19_Witness ==
    /\ Decoded
    /\ csv_header = << << "a" >>, << "c" >> >>
    /\ csv_fields = << PlainLine(1, 2), PlainLine(3, 1) >>
    /\ final_newline
    /\ Len(lines) = 3
    /\ DOMAIN lines[1] = { << "a" >> }
    /\ DOMAIN lines[2] = { << "a" >>, << "c" >> }

\* C20 as stated: the line a,"x","y,z""",b is split into 4 fields.
C20_QuotedCommaGivesFourFields ==
    Decoded
        => \A j \in DOMAIN csv_fields :
              csv_fields[j] = QuotedCommaLine => Len(row_fields[j]) = 4

\* C20: the line a,"x","y,z""",b holds no alnum"",""alnum sequence, is left
\* as it is and split at each of its 4 commas into 5 fields; the line
\* a,"x","y"",""z",b is repaired and split into 4 fields.
C20_OnlyDoubledQuotesRepaired ==
    Decoded
        => \A j \in DOMAIN csv_fields :
              /\ csv_fields[j] = QuotedCommaLine
                    => /\ Len(row_fields[j]) = 5
                       /\ \A i \in 1..4 : row_fields[j][i] = QuotedCommaLine[i]
              /\ csv_fields[j] = DoubledQuoteLine
                    => /\ Len(row_fields[j]) = 4
                       /\ row_fields[j][3] =
                            << "\"", "y", "\"", "\"", ";", "\"", "\"", "z", "\"" >>

C20_Witness ==
    /\ Decoded
    /\ csv_header = FourColumns
    /\ csv_fields = << QuotedCommaLine, DoubledQuoteLine >>
    /\ Len(row_fields[1]) = 5
    /\ lines[1][<< "d" >>] = << "z", "\"", "\"", "\"" >>
    /\ lines[2][<< "d" >>] = << "b", "'" >>

\* the line of iteration j as the repair pass left it
Repaired(j) == LineText(row_fields[j])

\* C27: after the repair pass a line holds no sequence alnum"",""alnum, a
\* second pass changes nothing, and the pass changed nothing but commas
\* into semicolons.
C27_RepairCompleteAndIdempotent ==
    Decoded
        => \A j \in DOMAIN row_fields :
              /\ \A i \in 1..Len(Repaired(j)) : MatchAt(Repaired(j), i) = 0
              /\ Repair(Repaired(j), findall(Repaired(j)), 1) = Repaired(j)
              /\ Len(Repaired(j)) = Len(Rows(FileBytes(csv_header, csv_fields,
                                                      final_newline))[j + 1])
              /\ \A i \in 1..Len(Repaired(j)) :
                    LET before == Rows(FileBytes(csv_header, csv_fields,
                                                final_newline))[j + 1][i]
                    IN Repaired(j)[i] = before
                          \/ (before = "," /\ Repaired(j)[i] = ";")

\* the part of C27 the code keeps: the pass changes nothing but commas of
\* matched sequences into semicolons
C27_OnlyCommasChanged ==
    Decoded
        => \A j \in DOMAIN row_fields :
              /\ Len(Repaired(j)) = Len(Rows(FileBytes(csv_header, csv_fields,
                                                      final_newline))[j + 1])
              /\ \A i \in 1..Len(Repaired(j)) :
                    LET before == Rows(FileBytes(csv_header, csv_fields,
                                                final_newline))[j + 1][i]
                    IN Repaired(j)[i] = before
                          \/ (before = "," /\ Repaired(j)[i] = ";")

\* x"",""y"",""z leaves the pass as x"";""y"",""z
C27_SecondSequenceLeft ==
    /\ Decoded
    /\ csv_fields = << SharedBoundaryLine >>
    /\ final_newline
    /\ row_fields[1] =
          << << "x", "\"", "\"", ";", "\"", "\"", "y", "\"", "\"" >>,
             << "\"", "\"", "z" >> >>

----------------------------------------------------------------------------
(* ReconciliationReport: stream_slices and parse_response                  *)
(* A date string is the sequence of its numbers in the order of its        *)
(* format: << month, day, year >> for MMDDYYYY, << year, month, day >> for *)
(* YYYY-MM-DD.                                                             *)

MaxDates == 3       \* most dates the available-dates endpoint returns
MaxFileLines == 3   \* most lines of a reconciliation file

\* datetime.strptime(date, '%m%d%Y')
strptime_mdY(date) ==
    [year |-> date[3], month |-> date[1], day |-> date[2], second |-> 0]

\* datetime.strptime(date, DATE_FORMAT), DATE_FORMAT = "%Y-%m-%d"
strptime_Ymd(date) ==
    [year |-> date[1], month |-> date[2], day |-> date[3], second |-> 0]

\* a <= b on datetimes
DatetimeLeq(a, b) ==
    \/ a.year < b.year
    \/ a.year = b.year /\ a.month < b.month
    \/ a.year = b.year /\ a.month = b.month /\ a.day < b.day
    \/ a.year = b.year /\ a.month = b.month /\ a.day = b.day
            /\ a.second <= b.second

\* variant: the end of the range is exclusive
InRangeExclusiveEnd(date, start, end, clock) ==
    LET start_dt == strptime_Ymd(start)
        end_dt == IF Len(end) > 0 THEN strptime_Ymd(end) ELSE clock
        dt == strptime_mdY(date)
    IN DatetimeLeq(start_dt, dt) /\ ~ DatetimeLeq(end_dt, dt)

\* start_date <= datetime.strptime(date, '%m%d%Y') <= end_date
InRange(date, start, end, clock) ==
    LET start_dt == strptime_Ymd(start)
        end_dt == IF Len(end) > 0 THEN strptime_Ymd(end) ELSE clock
        dt == strptime_mdY(date)
    IN DatetimeLeq(start_dt, dt) /\ DatetimeLeq(dt, end_dt)

\* the list comprehension of stream_slices
filtered_dates(dates, start, end, clock) ==
    SelectSeq(dates, LAMBDA date : InRange(date, start, end, clock))

\* csv.reader over the lines of the text: a blank line is an empty row
csv_reader(text) ==
    LET split == str_split(text, "\n")
        file_lines == IF split[Len(split)] = << >>
                        THEN SubSeq(split, 1, Len(split) - 1)
                      ELSE split
    IN [i \in 1..Len(file_lines) |->
            IF file_lines[i] = << >> THEN << >> ELSE str_split(file_lines[i], ",")]

\* the row DictReader builds: missing fields are None, surplus fields are
\* collected under the key None
DictRow(fieldnames, row) ==
    LET zipped == dict_zip(fieldnames, row) IN
    IF Len(fieldnames) < Len(row)
        THEN SetItem(zipped, << None >>,
                     SubSeq(row, Len(fieldnames) + 1, Len(row)))
    ELSE [k \in DOMAIN zipped \cup { fieldnames[i] : i \in DOMAIN fieldnames } |->
            IF k \in DOMAIN zipped THEN zipped[k] ELSE << None >>]

\* what iterating a csv.DictReader yields: the first row gives the field
\* names, blank rows after it are skipped
DictReader(rows) ==
    IF Len(rows) = 0 THEN << >>
    ELSE LET data == SelectSeq(Tail(rows), LAMBDA row : row # << >>)
         IN [j \in 1..Len(data) |-> DictRow(rows[1], data[j])]

\* variant: a line is dropped before the reader takes its field names
recon_parse_responseSkipFirstLine(text) ==
    IF Len(csv_reader(text)) = 0 THEN << >>
    ELSE DictReader(Tail(csv_reader(text)))

\* ReconciliationReport.parse_response: next(reader, None), then every row
recon_parse_response(text) ==
    IF Len(DictReader(csv_reader(text))) = 0 THEN << >>
    ELSE Tail(DictReader(csv_reader(text)))

\* what the available-dates endpoint may list
ReportDates ==
    { << 12, 31, 2022 >>, << 1, 1, 2023 >>, << 2, 28, 2023 >>, << 3, 1, 2023 >>,
      << 3, 15, 2023 >>, << 3, 16, 2023 >> }

\* lines of a reconciliation file
ReconLines ==
    { << >>,
      << << "meta" >> >>,
      << << "k1" >>, << "k2" >> >>,
      << << "1" >>, << "2" >> >>,
      << << "3" >>, << "4" >> >>,
      << << "5" >> >>,
      << << "6" >>, << "7" >>, << "8" >> >> }

\* the text of a file of these lines
ReconText(file_lines, newline) ==
    Join([i \in 1..Len(file_lines) |-> LineText(file_lines[i])], << "\n" >>)
        \o (IF newline /\ Len(file_lines) > 0 THEN << "\n" >> ELSE << >>)

ReconInit ==
    /\ ReportIdle
    /\ CodecIdle
    /\ PageIdle
    /\ CsvIdle
    /\ CancelIdle
    /\ CheckIdle
    /\ AuthIdle
    /\ slices = << >>
    /\ recon_rows = << >>
    /\ \/ /\ recon_pc = "slices"
          /\ available_dates \in UNION { [1..n -> ReportDates] : n \in 0..MaxDates }
          /\ recon_start_date \in { << 2023, 1, 1 >>, << 2023, 3, 1 >> }
          /\ recon_end_date \in { << >>, << 2023, 3, 1 >>, << 2023, 3, 15 >> }
          /\ utcnow \in { [year |-> 2023, month |-> 3, day |-> 15, second |-> sec] :
                            sec \in {0, 43200} }
          /\ recon_file = << >>
       \/ /\ recon_pc = "parse"
          /\ available_dates = << >>
          /\ recon_start_date = << >>
          /\ recon_end_date = << >>
          /\ utcnow = [year |-> 0, month |-> 0, day |-> 0, second |-> 0]
          /\ \E file_lines \in UNION { [1..n -> ReconLines] : n \in 0..MaxFileLines },
                newline \in BOOLEAN :
                recon_file = ReconText(file_lines, newline)

\* stream_slices
StreamSlices ==
    /\ recon_pc = "slices"
    /\ slices' =
          LET kept == filtered_dates(available_dates, recon_start_date,
                                     recon_end_date, utcnow)
          IN [i \in 1..Len(kept) |-> [report_date |-> kept[i]]]
    /\ recon_pc' = "done"
    /\ UNCHANGED << available_dates, recon_start_date, recon_end_date, utcnow,
                    recon_file, recon_rows >>
    /\ UNCHANGED << reportVars, codecVars, pageVars, csvVars, cancelVars,
                    checkVars, authVars >>

\* parse_response of the reconciliation report
ReconParseResponse ==
    /\ recon_pc = "parse"
    /\ recon_rows' = recon_parse_response(recon_file)
    /\ recon_pc' = "done"
    /\ UNCHANGED << available_dates, recon_start_date, recon_end_date, utcnow,
                    slices, recon_file >>
    /\ UNCHANGED << reportVars, codecVars, pageVars, csvVars, cancelVars,
                    checkVars, authVars >>

ReconNext == StreamSlices \/ ReconParseResponse

ReconSpec == ReconInit /\ [][ReconNext]_vars

----------------------------------------------------------------------------
(* Properties of the reconciliation report *)

Sliced == recon_pc = "done" /\ Len(recon_start_date) > 0

\* days on a scale that keeps the order of the calendar
Ordinal(year, month, day) == (year * 12 + month) * 31 + day

\* start <= date <= end by the calendar, both ends included; without an
\* end date the day of the clock is the last day
WithinConfiguredRange(date) ==
    /\ Ordinal(recon_start_date[1], recon_start_date[2], recon_start_date[3])
            <= Ordinal(date[3], date[1], date[2])
    /\ Ordinal(date[3], date[1], date[2])
            <= IF Len(recon_end_date) > 0
                 THEN Ordinal(recon_end_date[1], recon_end_date[2], recon_end_date[3])
               ELSE Ordinal(utcnow.year, utcnow.month, utcnow.day)

KeptDates == SelectSeq(available_dates, WithinConfiguredRange)

\* C21: stream_slices yields one slice {report_date: d} for every available
\* date d with start_date <= d <= end_date (the current UTC time when no
\* end date is set), both ends included, in the order and with the
\* multiplicity of the list the endpoint returned; 03152023, 01012023,
\* 02282023 with start 2023-01-01 and end 2023-03-01 give 01012023, 02282023.
C21_SlicesAreDatesInRange ==
    Sliced
        => /\ slices = [i \in 1..Len(KeptDates) |-> [report_date |-> KeptDates[i]]]
           /\ (/\ available_dates =
                      << << 3, 15, 2023 >>, << 1, 1, 2023 >>, << 2, 28, 2023 >> >>
               /\ recon_start_date = << 2023, 1, 1 >>
               /\ recon_end_date = << 2023, 3, 1 >>)
                => slices = << [report_date |-> << 1, 1, 2023 >>],
                               [report_date |-> << 2, 28, 2023 >>] >>

\* dates out of order, one twice, one on the end date, one outside
C21_Witness ==
    /\ Sliced
    /\ available_dates = << << 3, 1, 2023 >>, << 3, 15, 2023 >>, << 3, 1, 2023 >> >>
    /\ recon_start_date = << 2023, 3, 1 >>
    /\ recon_end_date = << 2023, 3, 1 >>
    /\ slices = << [report_date |-> << 3, 1, 2023 >>],
                   [report_date |-> << 3, 1, 2023 >>] >>

Parsed == recon_pc = "done" /\ Len(recon_start_date) = 0

\* L1, L2, ..., Ln: the lines of the file
ReconFileLines ==
    LET split == str_split(recon_file, "\n") IN
    IF split[Len(split)] = << >> THEN SubSeq(split, 1, Len(split) - 1) ELSE split

ColumnsOf(line) == IF line = << >> THEN << >> ELSE str_split(line, ",")

----------------------------------------------------------------------------
(* SourceWalmartSeller.check_connection *)

\* exceptions a request of the Orders stream may end in before a response
\* is parsed: the authenticator's, the transport's
RequestFaults == {"Exception", "HTTPError", "ConnectionError"}

\* variant: only validation errors are caught
check_connectionCatchesValidationOnly(exception) ==
    IF exception = "none" THEN [kind |-> "return", ok |-> TRUE, error |-> None]
    ELSE IF exception = "ValidationError"
        THEN [kind |-> "return", ok |-> FALSE, error |-> exception]
    ELSE [kind |-> "raise", ok |-> FALSE, error |-> exception]

\* the try / except Exception / return of check_connection, for the
\* exception raised in the try block ("none" when it ran to its end)
check_connection(exception) ==
    IF exception = "none" THEN [kind |-> "return", ok |-> TRUE, error |-> None]
    ELSE [kind |-> "return", ok |-> FALSE, error |-> exception]

CheckInit ==
    /\ ReportIdle
    /\ CodecIdle
    /\ CsvIdle
    /\ CancelIdle
    /\ ReconIdle
    /\ AuthIdle
    /\ check_pc = "config"
    /\ config_valid \in BOOLEAN
    /\ check_result = NoResult
    /\ page_pc = "idle"
    /\ stream = "Orders"
    /\ end_date \in { << >>, Word("2023-03-01") }
    /\ next_page_token = << >>
    /\ request_params_sent = << >>
    /\ request_token = << >>
    /\ response_cursor = JNull
    /\ first_cursor = JNull
    /\ omitted = << "none", "none" >>
    /\ ever_omitted = FALSE
    /\ status_code = 0
    /\ page_records = << >>
    /\ requests = 0
    /\ page_outcome = "none"
    /\ total_items \in 0..MaxItems
    /\ page_size \in 1..MaxPageSize
    /\ lazy_server \in BOOLEAN

\* WalmartSellerConfig.parse_obj(config) and the construction of the stream
ParseConfig ==
    /\ check_pc = "config"
    /\ IF config_valid
          THEN /\ check_pc' = "read"
               /\ page_pc' = "request"
               /\ UNCHANGED check_result
       ELSE /\ check_pc' = "returned"
            /\ check_result' = check_connection("ValidationError")
            /\ UNCHANGED page_pc
    /\ UNCHANGED << config_valid, stream, end_date, next_page_token,
                    request_params_sent, request_token, response_cursor,
                    first_cursor, omitted, ever_omitted, status_code,
                    page_records, requests, page_outcome, total_items,
                    page_size, lazy_server >>
    /\ UNCHANGED << reportVars, codecVars, csvVars, cancelVars, reconVars,
                    authVars >>

\* a request of the read raises before a response is parsed
FetchFails ==
    /\ check_pc = "read"
    /\ page_pc = "request"
    /\ \E exception \in RequestFaults :
          /\ page_outcome' = exception
          /\ page_pc' = "done"
    /\ requests' = Min(requests + 1, MaxRequests)
    /\ UNCHANGED << stream, end_date, next_page_token, request_params_sent,
                    request_token, response_cursor, first_cursor, omitted,
                    ever_omitted, status_code, page_records, total_items,
                    page_size, lazy_server >>
    /\ UNCHANGED << reportVars, codecVars, csvVars, cancelVars, reconVars,
                    checkVars, authVars >>

\* the loop over read_records has ended, by its end or by an exception
CheckReturn ==
    /\ check_pc = "read"
    /\ page_pc = "done"
    /\ check_result' =
          check_connection(IF page_outcome = "complete" THEN "none" ELSE page_outcome)
    /\ check_pc' = "returned"
    /\ UNCHANGED << config_valid, pageVars >>
    /\ UNCHANGED << reportVars, codecVars, csvVars, cancelVars, reconVars,
                    authVars >>

CheckNext == ParseConfig \/ FetchPage \/ FetchFails \/ CheckReturn

CheckSpec == CheckInit /\ [][CheckNext]_vars

\* C25: check_connection never raises; it returns (True, None) exactly when
\* the config was parsed and the Orders stream was read to its last page
\* without an exception, and (False, <error text>) for an exception raised
\* while parsing the config, authenticating or reading a page.
C25_CheckNeverRaises ==
    /\ check_result.kind # "raise"
    /\ check_pc = "returned"
          => /\ check_result.kind = "return"
             /\ check_result.ok
                  <=> (config_valid /\ page_outcome = "complete")
             /\ check_result.ok
                  => /\ check_result.error = None
                     /\ requests >= 1
                     /\ ~ JTruthy(response_cursor)
             /\ ~ check_result.ok
                  => check_result.error =
                        IF config_valid THEN page_outcome ELSE "ValidationError"

\* (True, None) after three pages
C25_Witness ==
    /\ check_pc = "returned"
    /\ check_result = [kind |-> "return", ok |-> TRUE, error |-> None]
    /\ requests = 3
    /\ JTruthy(first_cursor)

\* (False, error) for a page that failed after a first page was read
C25_FailedOnLaterPage ==
    /\ check_pc = "returned"
    /\ check_result = [kind |-> "return", ok |-> FALSE, error |-> "HTTPError"]
    /\ requests = 2

----------------------------------------------------------------------------
(* WalmartAuthenticator *)

MaxClock == 4           \* the clock is followed for this many seconds
MaxExpiresIn == 2       \* longest token lifespan the token endpoint grants

\* the bodies of a 200 reply of the token endpoint: each of access_token and
\* expires_in is present or not, the token a string or null, the lifespan a
\* number or null
TokenBodies ==
    UNION { [keys -> {JNull}] : keys \in SUBSET {"access_token", "expires_in"} }
    \cup { [access_token |-> tok, expires_in |-> life] :
              tok \in {JStr("tok-a"), JStr("tok-b"), JNull},
              life \in {JNum(n) : n \in 0..MaxExpiresIn} \cup {JNull} }
    \cup { [access_token |-> tok] : tok \in {JStr("tok-a")} }
    \cup { [expires_in |-> JNum(1)] }

\* what requests.request and raise_for_status make of the token request
TokenReplies ==
    { [transport |-> "ok", body |-> b] : b \in TokenBodies }
    \cup { [transport |-> tr, body |-> << >>] :
              tr \in {"client_error", "connection_error"} }

Generated(tok, life) == [raised |-> FALSE, token |-> tok, expires_in |-> life]

GenerationError == [raised |-> TRUE, token |-> JNull, expires_in |-> 0]

\* _generate_access_token: every exception of the request, of
\* raise_for_status, of the two subscripts and of int() is raised again
generate_access_token(reply) ==
    IF reply.transport # "ok" THEN GenerationError
    ELSE IF "access_token" \notin DOMAIN reply.body THEN GenerationError
    ELSE IF "expires_in" \notin DOMAIN reply.body THEN GenerationError
    ELSE IF reply.body["expires_in"].t # "num" THEN GenerationError
    ELSE Generated(reply.body["access_token"], reply.body["expires_in"].v)

\* _token_has_expired
token_has_expired(instant, expiry) == instant > expiry

\* f"{value}" of a string or of None
fstring(value) == IF value.t = "null" THEN "None" ELSE value.v

AuthInit ==
    /\ ReportIdle
    /\ CodecIdle
    /\ PageIdle
    /\ CsvIdle
    /\ CancelIdle
    /\ ReconIdle
    /\ CheckIdle
    /\ AuthIdle

CallRecord(kind, requested, value) ==
    [kind |-> kind, first |-> last_call.kind = "none", requested |-> requested,
     at |-> auth_now, token_before |-> access_token,
     expiry_before |-> token_expiry_date, header |-> value]

\* get_auth_header, with _get_access_token
GetAuthHeader ==
    /\ IF token_has_expired(auth_now, token_expiry_date)
          THEN \E reply \in TokenReplies, latency \in {0, 1} :
                 LET t0 == auth_now
                     generated == generate_access_token(reply)
                 IN  /\ auth_now' = Min(auth_now + latency, MaxClock)
                     /\ IF generated.raised
                           THEN /\ last_call' = CallRecord("raised", TRUE, "")
                                /\ UNCHANGED << access_token, token_expiry_date >>
                        ELSE /\ access_token' = generated.token
                             /\ token_expiry_date' = t0 + generated.expires_in
                             /\ last_call' =
                                   CallRecord("returned", TRUE,
                                              fstring(generated.token))
       ELSE /\ last_call' = CallRecord("returned", FALSE, fstring(access_token))
            /\ UNCHANGED << auth_now, access_token, token_expiry_date >>
    /\ UNCHANGED << reportVars, codecVars, pageVars, csvVars, cancelVars,
                    reconVars, checkVars >>

\* the clock advances by a second
Tick ==
    /\ auth_now < MaxClock
    /\ auth_now' = auth_now + 1
    /\ UNCHANGED << token_expiry_date, access_token, last_call >>
    /\ UNCHANGED << reportVars, codecVars, pageVars, csvVars, cancelVars,
                    reconVars, checkVars >>

AuthNext == GetAuthHeader \/ Tick

AuthSpec == AuthInit /\ [][AuthNext]_vars

\* a get_auth_header call has been made
Called == last_call.kind # "none"

\* the call asked for a token exactly when it was made strictly after the
\* stored expiry, and the first call asked for one
RequestedWhenExpired ==
    /\ last_call.requested <=> last_call.at > last_call.expiry_before
    /\ last_call.first => last_call.requested

\* a call made up to the expiry returned the cached token and changed nothing
CachedBeforeExpiry ==
    ~ last_call.requested
       => /\ last_call.kind = "returned"
          /\ last_call.header = fstring(last_call.token_before)
          /\ access_token = last_call.token_before
          /\ token_expiry_date = last_call.expiry_before

\* a call that raised had asked for a token and left token and expiry alone
FailureLeavesCache ==
    last_call.kind = "raised"
       => /\ last_call.requested
          /\ access_token = last_call.token_before
          /\ token_expiry_date = last_call.expiry_before

\* the header returned is that of a token, not of None
HeaderHasToken ==
    last_call.kind = "returned" => last_call.header # fstring(JNull)

\* C28: across get_auth_header calls and clock advances, a token request is
\* issued only when the time is strictly after the stored expiry (the first
\* call always issues one), a call before the expiry returns the cached token
\* without a token request, the returned header never carries a null token,
\* and a failed token request raises and leaves token and expiry unchanged.
C28_TokenLifecycle ==
    Called => /\ RequestedWhenExpired
              /\ CachedBeforeExpiry
              /\ HeaderHasToken
              /\ FailureLeavesCache

\* what holds of the code: all of C28 but the null token
C28_RenewalAndFailure ==
    Called => /\ RequestedWhenExpired
              /\ CachedBeforeExpiry
              /\ FailureLeavesCache

\* a null token of the endpoint is cached and served from the cache
C28_NullTokenServed ==
    /\ last_call.kind = "returned"
    /\ ~ last_call.requested
    /\ last_call.header = "None"

\* a token is served from the cache at the expiry instant
C28_CachedAtExpiry ==
    /\ last_call.kind = "returned"
    /\ ~ last_call.requested
    /\ last_call.at = last_call.expiry_before
    /\ last_call.header = "tok-a"

TypeOK ==
    /\ pc \in {"create", "loop", "sleep", "parse", "done"}
    /\ polls \in 0..MaxPolls
    /\ lag \in 0..MaxLag
    /\ now \in 0..(MaxDays * SECONDS_PER_DAY)
====
